---- MODULE Spec2Model ----
(***************************************************************************)
(* Model of aws-ci/git_check_release.py: a linear script that clones a     *)
(* fork, merges the upstream release branch into a fresh sync branch and,  *)
(* unless git reports "Already up to date", pushes the sync branch and     *)
(* opens a pull request.                                                   *)
(*                                                                         *)
(* Strings are TLA+ strings; the bytes git writes on stdout are sequences  *)
(* of integers 0..255 and the decoded text is a sequence of characters     *)
(* (one-character strings for ASCII, "U+<n>" for the code point n >= 128). *)
(***************************************************************************)
EXTENDS Integers, Sequences, FiniteSets, TLC

VARIABLES
    pc,           \* position of main(): the next statement to execute
    tf_version,   \* args.tf_version as argparse left it (float default or str)
    tf_branch,    \* local of main(), line 15
    git_branch,   \* local of main(), line 16
    cwd,          \* the process's working directory
    output,       \* local of main(), line 23: the decoded stdout of git pull
    raised,       \* the uncaught exception that ended the run, or "none"
    calls,        \* trace of the side effects main() has invoked, in order
    fs,           \* what is at ./aws-tensorflow/ : "absent" or "dir"
    repo,         \* the git repository in ./aws-tensorflow/ (NoRepo if none)
    origin        \* the fork's remote: the pushed sync branch, the pull request

vars == <<pc, tf_version, tf_branch, git_branch, cwd, output, raised, calls,
          fs, repo, origin>>

----------------------------------------------------------------------------
(* Bounds *)

\* the stdout of git pull is at most MaxLines sample lines
MaxLines == 2

----------------------------------------------------------------------------
(* Characters and bytes *)

\* the printable ASCII characters 32..95 and 97..126
PrintableLow ==
    " !\"#$%&'()*+,-./0123456789:;<=>?@ABCDEFGHIJKLMNOPQRSTUVWXYZ[\\]^_"

PrintableHigh == "abcdefghijklmnopqrstuvwxyz{|}~"

\* the character with code point n
Chr(n) ==
    IF n = 10 THEN "\n"
    ELSE IF n >= 32 /\ n <= 95 THEN SubSeq(PrintableLow, n - 31, n - 31)
    ELSE IF n >= 97 /\ n <= 126 THEN SubSeq(PrintableHigh, n - 96, n - 96)
    ELSE "U+" \o ToString(n)

\* the code point of an ASCII character
Ord(c) == CHOOSE n \in 0..127 : Chr(n) = c

\* the characters of a string, one per element
Chars(s) == [i \in 1..Len(s) |-> SubSeq(s, i, i)]

\* the bytes a tool writes for an ASCII string
Bytes(s) == [i \in 1..Len(s) |-> Ord(SubSeq(s, i, i))]

IsCont(b) == b >= 128 /\ b <= 191

\* number of bytes of the UTF-8 sequence that starts at b[i], 0 if ill-formed
SeqLen(b, i) ==
    LET n  == Len(b)
        b0 == b[i]
        c(k) == i + k <= n /\ IsCont(b[i + k])
    IN  IF b0 <= 127 THEN 1
        ELSE IF b0 >= 194 /\ b0 <= 223 THEN (IF c(1) THEN 2 ELSE 0)
        ELSE IF b0 >= 224 /\ b0 <= 239
             THEN (IF /\ c(1) /\ c(2)
                      /\ (b0 = 224 => b[i + 1] >= 160)
                      /\ (b0 = 237 => b[i + 1] <= 159)
                   THEN 3 ELSE 0)
        ELSE IF b0 >= 240 /\ b0 <= 244
             THEN (IF /\ c(1) /\ c(2) /\ c(3)
                      /\ (b0 = 240 => b[i + 1] >= 144)
                      /\ (b0 = 244 => b[i + 1] <= 143)
                   THEN 4 ELSE 0)
        ELSE 0

\* the code point of the well-formed sequence of k bytes that starts at b[i]
CodePoint(b, i, k) ==
    CASE k = 1 -> b[i]
      [] k = 2 -> (b[i] - 192) * 64 + (b[i + 1] - 128)
      [] k = 3 -> (b[i] - 224) * 4096 + (b[i + 1] - 128) * 64 + (b[i + 2] - 128)
      [] k = 4 -> (b[i] - 240) * 262144 + (b[i + 1] - 128) * 4096
                  + (b[i + 2] - 128) * 64 + (b[i + 3] - 128)

\* the positions where a character starts: every byte but the continuations
Starts(b) == {i \in 1..Len(b) : ~IsCont(b[i])}

\* a continuation byte belongs to the sequence of a lead byte just before it
Covered(b, j) ==
    \E d \in 1..3 : /\ j - d >= 1
                    /\ j - d \in Starts(b)
                    /\ SeqLen(b, j - d) > d

\* bytes.decode('utf-8'), errors='strict': the text, or the failure that
\* raises UnicodeDecodeError
Decode(b) ==
    LET S == Starts(b)
        rank == [i \in S |-> Cardinality({j \in S : j <= i})]
        nth == [n \in 1..Cardinality(S) |-> CHOOSE i \in S : rank[i] = n]
    IN  IF /\ \A i \in S : SeqLen(b, i) > 0
           /\ \A j \in (1..Len(b)) \ S : Covered(b, j)
        THEN [ok |-> TRUE,
              text |-> [n \in 1..Cardinality(S) |->
                           Chr(CodePoint(b, nth[n], SeqLen(b, nth[n])))]]
        ELSE [ok |-> FALSE, text |-> <<>>]

\* Python's  needle in text
Contains(needle, text) ==
    \E i \in 1..(Len(text) - Len(needle) + 1) :
        SubSeq(text, i, i + Len(needle) - 1) = needle

\* the part of s after the first occurrence of marker ("" if there is none)
After(marker, s) ==
    LET m == Len(marker)
        hits == {i \in 1..(Len(s) - m + 1) : SubSeq(s, i, i + m - 1) = marker}
    IN  IF hits = {} THEN ""
        ELSE LET i == CHOOSE j \in hits : \A k \in hits : j <= k
             IN  SubSeq(s, i + m, Len(s))

\* the part of s before the first occurrence of marker (s if there is none)
Before(marker, s) ==
    LET m == Len(marker)
        hits == {i \in 1..(Len(s) - m + 1) : SubSeq(s, i, i + m - 1) = marker}
    IN  IF hits = {} THEN s
        ELSE LET i == CHOOSE j \in hits : \A k \in hits : j <= k
             IN  SubSeq(s, 1, i - 1)

\* the value that follows marker in a command line, up to the terminator
Between(marker, term, s) ==
    CHOOSE v \in {Before(term, rest) : rest \in {After(marker, s)}} : TRUE

StartsWith(prefix, s) ==
    Len(prefix) <= Len(s) /\ SubSeq(s, 1, Len(prefix)) = prefix

RECURSIVE Flatten(_)
\* the concatenation of a sequence of byte sequences
Flatten(ls) == IF ls = <<>> THEN <<>> ELSE Head(ls) \o Flatten(Tail(ls))

----------------------------------------------------------------------------
(* The command line, lines 5-11 *)

\* parser.add_argument('--tf_version', default=2.4): the float 2.4
DefaultVersion == [type |-> "float", units |-> 2, tenths |-> 4]

\* a value given on the command line stays a str
StrVersion(s) == [type |-> "str", str |-> s]

\* what args.tf_version can be after parser.parse_args()
Versions == {DefaultVersion} \cup {StrVersion(s) : s \in {"2.6", "1.15"}}

\* "{tf_version}".format(tf_version=v): str(v) of a float or of a str
Format(v) ==
    IF v.type = "float" THEN ToString(v.units) \o "." \o ToString(v.tenths)
    ELSE v.str

----------------------------------------------------------------------------
(* The strings main() builds *)

\* line 15
TfBranch(v) == "r" \o Format(v) \o "_aws"

\* line 16
GitBranch(v) == "r" \o Format(v)

\* line 17
CloneCmd == "git clone codecommit::us-west-2://aws-tensorflow"

\* line 18
CloneDir == "aws-tensorflow/"

\* line 19
CheckoutCmd(tfb) == "git checkout " \o tfb

\* line 20
CheckoutNewCmd(v) == "git checkout -b r" \o Format(v) \o "_aws_git"

\* line 21
RemoteAddCmd ==
    "git remote add google https://github.com/tensorflow/tensorflow.git"

\* lines 22-23
PullArgv(gb) == <<"git", "pull", "--commit", "google", gb>>

\* line 25
StatusCmd == "git status"

\* the substring in lower case
Needle_lowercase == Chars("already up to date")

\* line 26
Needle == Chars("Already up to date")

\* line 27
UpToDateMsg == "Branch already up to date."

\* the target branch pushed in place of the sync branch
PushCmd_target(v) == "git push --set-upstream origin r" \o Format(v) \o "_aws"

\* line 29
PushCmd(v) == "git push --set-upstream origin r" \o Format(v) \o "_aws_git"

\* the title without the version and the token made from the version
PullRequestCmd_perVersionToken(v, tfb) ==
    "aws codecommit create-pull-request --title \"TF git sync\""
    \o " --description \"Sync tf " \o Format(v)
    \o " with vanilla tf branch\" "
    \o "--client-request-token request_token_" \o Format(v) \o " --targets "
    \o "repositoryName=aws-tensorflow,sourceReference=r" \o Format(v)
    \o "_aws_git,destinationReference=" \o tfb

\* lines 30-32
PullRequestCmd(v, tfb) ==
    "aws codecommit create-pull-request --title \"TF" \o Format(v)
    \o " git sync\" --description \"Sync tf " \o Format(v)
    \o " with vanilla tf branch\" "
    \o "--client-request-token request_token --targets "
    \o "repositoryName=aws-tensorflow,sourceReference=r" \o Format(v)
    \o "_aws_git,destinationReference=" \o tfb

----------------------------------------------------------------------------
(* The world outside the process: the file system, git and the fork *)

\* the directory the script is started in
OrigDir == "."

\* os.chdir(path) with a relative path
JoinPath(dir, path) == dir \o "/" \o path

\* exit statuses of an external command: success or failure
ExitCodes == {0, 1}

\* the last word of a command line: the branch a git command names
LastWord(s) ==
    LET sp == {i \in 1..Len(s) : SubSeq(s, i, i) = " "}
    IN  IF sp = {} THEN s
        ELSE SubSeq(s, (CHOOSE j \in sp : \A k \in sp : k <= j) + 1, Len(s))

\* what a branch holds: the commit it was started from and whether the
\* upstream release branch has been merged into it
Tip(base) == [base |-> base, merged |-> FALSE]

NoRepo == [exists |-> FALSE, head |-> "", tips |-> <<>>, remotes |-> {}]

\* git clone: the default branch checked out, one remote
FreshClone ==
    [exists |-> TRUE, head |-> "master",
     tips |-> ("master" :> Tip("default")), remotes |-> {"origin"}]

\* the working copy an earlier run for the same version left behind
Leftover(v) ==
    [exists |-> TRUE, head |-> LastWord(CheckoutNewCmd(v)),
     tips |-> (LastWord(CheckoutNewCmd(v)) :> [base |-> "stale", merged |-> TRUE])
              @@ (TfBranch(v) :> Tip("target")) @@ ("master" :> Tip("default")),
     remotes |-> {"origin", "google"}]

NoOrigin == [branches |-> <<>>, prs |-> <<>>]

\* the fork after an earlier run pushed its sync branch
StaleOrigin(v) ==
    [branches |-> (LastWord(CheckoutNewCmd(v)) :> [base |-> "stale", merged |-> TRUE]),
     prs |-> <<>>]

\* sample lines git pull writes on stdout
Lines ==
    { Bytes("Already up to date.\n"),
      Bytes("already up to date.\n"),
      Bytes("Already up to "),
      Bytes("Updating abc123..def456\n Fast-forward\n"),
      Bytes(" caf") \o <<195, 169>> \o Bytes(".py | 2 +-\n"),
      Bytes(" caf") \o <<233>> \o Bytes(".py | 2 +-\n") }

\* the stdout of one git pull: up to MaxLines lines, possibly none
Stdouts == {Flatten(ls) : ls \in UNION {[1..n -> Lines] : n \in 0..MaxLines}}

\* what bytes.decode('utf-8') makes of each of them
Decoded == [b \in Stdouts |-> Decode(b)]

\* a git command can only succeed in a repository
GitUsable == repo.exists /\ cwd = JoinPath(OrigDir, CloneDir)

\* git checkout <branch>: the branch from origin becomes the current one
GitCheckout(r, branch) ==
    [r EXCEPT !.head = branch,
              !.tips = IF branch \in DOMAIN r.tips THEN r.tips
                       ELSE (branch :> Tip("target")) @@ r.tips]

\* git checkout -b <branch>: a new branch at the current commit
GitCheckoutNew(r, branch) ==
    [r EXCEPT !.head = branch, !.tips = (branch :> r.tips[r.head]) @@ r.tips]

\* git pull --commit google <branch>: upstream merged into the current branch
GitPull(r) == [r EXCEPT !.tips[r.head].merged = TRUE]

\* the entry main() leaves in the trace of its side effects
Call(op, argv, rc) == [op |-> op, argv |-> argv, cwd |-> cwd, rc |-> rc]

Unbound == "<unbound>"

Unassigned == <<"<unassigned>">>

----------------------------------------------------------------------------
(* The run *)

Init ==
    /\ pc = "derive"
    /\ tf_version \in Versions
    /\ tf_branch = Unbound
    /\ git_branch = Unbound
    /\ cwd = OrigDir
    /\ output = Unassigned
    /\ raised = "none"
    /\ calls = <<>>
    /\ \/ fs = "absent" /\ repo = NoRepo /\ origin = NoOrigin
       \/ fs = "dir" /\ repo = NoRepo /\ origin = NoOrigin
       \/ fs = "dir" /\ repo = Leftover(tf_version)
          /\ origin \in {NoOrigin, StaleOrigin(tf_version)}

\* lines 15-16
DeriveBranches ==
    /\ pc = "derive"
    /\ tf_branch' = TfBranch(tf_version)
    /\ git_branch' = GitBranch(tf_version)
    /\ pc' = "clone"
    /\ UNCHANGED <<tf_version, cwd, output, raised, calls, fs, repo, origin>>

\* line 17: the exit status of os.system is dropped
Clone ==
    /\ pc = "clone"
    /\ \E rc \in ExitCodes :
          /\ rc = 0 => ~repo.exists
          /\ calls' = Append(calls, Call("os.system", <<CloneCmd>>, rc))
          /\ IF rc = 0
             THEN fs' = "dir" /\ repo' = FreshClone
             ELSE UNCHANGED <<fs, repo>>
    /\ pc' = "chdir"
    /\ UNCHANGED <<tf_version, tf_branch, git_branch, cwd, output, raised, origin>>

\* the failure of os.chdir caught and ignored
ChdirMissing_swallowed ==
    /\ calls' = Append(calls, Call("os.chdir", <<CloneDir>>, 1))
    /\ raised' = raised
    /\ pc' = "checkout"
    /\ cwd' = cwd

\* what os.chdir does when the directory is missing: FileNotFoundError
ChdirMissing ==
    /\ calls' = Append(calls, Call("os.chdir", <<CloneDir>>, 1))
    /\ raised' = "FileNotFoundError"
    /\ pc' = "aborted"
    /\ cwd' = cwd

\* line 18: os.chdir raises when there is no such directory
Chdir ==
    /\ pc = "chdir"
    /\ IF fs = "dir"
       THEN /\ calls' = Append(calls, Call("os.chdir", <<CloneDir>>, 0))
            /\ cwd' = JoinPath(cwd, CloneDir)
            /\ pc' = "checkout"
            /\ raised' = raised
       ELSE ChdirMissing
    /\ UNCHANGED <<tf_version, tf_branch, git_branch, output, fs, repo, origin>>

\* the checkout run with its exit status checked: a failure ends the run
CheckoutTarget_checked ==
    /\ pc = "checkout"
    /\ \E cmd \in {CheckoutCmd(tf_branch)}, rc \in ExitCodes :
          /\ rc = 0 => GitUsable
          /\ calls' = Append(calls, Call("os.system", <<cmd>>, rc))
          /\ repo' = IF rc = 0 THEN GitCheckout(repo, LastWord(cmd)) ELSE repo
          /\ pc' = IF rc = 0 THEN "checkout_b" ELSE "aborted"
          /\ raised' = IF rc = 0 THEN raised ELSE "CalledProcessError"
    /\ UNCHANGED <<tf_version, tf_branch, git_branch, cwd, output, fs, origin>>

\* line 19
CheckoutTarget ==
    /\ pc = "checkout"
    /\ \E cmd \in {CheckoutCmd(tf_branch)}, rc \in ExitCodes :
          /\ rc = 0 => GitUsable
          /\ calls' = Append(calls, Call("os.system", <<cmd>>, rc))
          /\ repo' = IF rc = 0 THEN GitCheckout(repo, LastWord(cmd)) ELSE repo
    /\ pc' = "checkout_b"
    /\ UNCHANGED <<tf_version, tf_branch, git_branch, cwd, output, raised, fs, origin>>

\* line 20: git refuses to create a branch that already exists
CreateSync ==
    /\ pc = "checkout_b"
    /\ \E cmd \in {CheckoutNewCmd(tf_version)}, rc \in ExitCodes :
          /\ rc = 0 => GitUsable /\ LastWord(cmd) \notin DOMAIN repo.tips
          /\ calls' = Append(calls, Call("os.system", <<cmd>>, rc))
          /\ repo' = IF rc = 0 THEN GitCheckoutNew(repo, LastWord(cmd)) ELSE repo
    /\ pc' = "remote_add"
    /\ UNCHANGED <<tf_version, tf_branch, git_branch, cwd, output, raised, fs, origin>>

\* line 21: git refuses to add a remote that already exists
RemoteAdd ==
    /\ pc = "remote_add"
    /\ \E rc \in ExitCodes :
          /\ rc = 0 => GitUsable /\ "google" \notin repo.remotes
          /\ calls' = Append(calls, Call("os.system", <<RemoteAddCmd>>, rc))
          /\ repo' = IF rc = 0
                     THEN [repo EXCEPT !.remotes = @ \cup {"google"}]
                     ELSE repo
    /\ pc' = "print_pull"
    /\ UNCHANGED <<tf_version, tf_branch, git_branch, cwd, output, raised, fs, origin>>

\* line 22
PrintPull ==
    /\ pc = "print_pull"
    /\ calls' = Append(calls, Call("print", PullArgv(git_branch), 0))
    /\ pc' = "pull"
    /\ UNCHANGED <<tf_version, tf_branch, git_branch, cwd, output, raised, fs,
                   repo, origin>>

\* line 23: only stdout is captured, the exit status is dropped, and
\* decode('utf-8') raises UnicodeDecodeError on ill-formed bytes
Pull ==
    /\ pc = "pull"
    /\ \E rc \in ExitCodes, stdout \in Stdouts :
          /\ rc = 0 => GitUsable /\ "google" \in repo.remotes
          /\ calls' = Append(calls, Call("subprocess.run", PullArgv(git_branch), rc))
          /\ repo' = IF rc = 0 THEN GitPull(repo) ELSE repo
          /\ LET d == Decoded[stdout]
             IN  IF d.ok
                 THEN output' = d.text /\ pc' = "print_output" /\ raised' = raised
                 ELSE output' = output /\ pc' = "aborted"
                      /\ raised' = "UnicodeDecodeError"
    /\ UNCHANGED <<tf_version, tf_branch, git_branch, cwd, fs, origin>>

\* line 24
PrintOutput ==
    /\ pc = "print_output"
    /\ calls' = Append(calls, Call("print", output, 0))
    /\ pc' = "status"
    /\ UNCHANGED <<tf_version, tf_branch, git_branch, cwd, output, raised, fs,
                   repo, origin>>

\* the status report left out
Status_skipped ==
    /\ pc = "status"
    /\ pc' = "decide"
    /\ UNCHANGED <<tf_version, tf_branch, git_branch, cwd, output, raised,
                   calls, fs, repo, origin>>

\* line 25
Status ==
    /\ pc = "status"
    /\ \E rc \in ExitCodes :
          /\ rc = 0 => GitUsable
          /\ calls' = Append(calls, Call("os.system", <<StatusCmd>>, rc))
    /\ pc' = "decide"
    /\ UNCHANGED <<tf_version, tf_branch, git_branch, cwd, output, raised, fs,
                   repo, origin>>

\* the substring looked for at the start of the text only
UpToDate_startswith(text) == StartsWith(Needle, text)

\* an empty output taken for "nothing to merge"
UpToDate_orEmpty(text) == text = <<>> \/ Contains(Needle, text)

\* line 26
UpToDate(text) == Contains(Needle, text)

\* lines 26-28: the substring test and the message of the up-to-date branch
Decide ==
    /\ pc = "decide"
    /\ IF UpToDate(output)
       THEN /\ calls' = Append(calls, Call("print", <<UpToDateMsg>>, 0))
            /\ pc' = "done"
       ELSE /\ calls' = calls
            /\ pc' = "push"
    /\ UNCHANGED <<tf_version, tf_branch, git_branch, cwd, output, raised, fs,
                   repo, origin>>

\* the push tried a second time when it fails
Push_retry ==
    /\ pc = "push"
    /\ \E cmd \in {PushCmd(tf_version)}, rc \in ExitCodes :
          \E b \in {LastWord(cmd)} :
              /\ rc = 0 => GitUsable /\ b \in DOMAIN repo.tips
              /\ calls' = IF rc = 0
                          THEN Append(calls, Call("os.system", <<cmd>>, rc))
                          ELSE Append(Append(calls, Call("os.system", <<cmd>>, rc)),
                                      Call("os.system", <<cmd>>, rc))
              /\ origin' = IF rc = 0
                           THEN [origin EXCEPT !.branches =
                                    (b :> repo.tips[b]) @@ @]
                           ELSE origin
    /\ pc' = "pull_request"
    /\ UNCHANGED <<tf_version, tf_branch, git_branch, cwd, output, raised, fs, repo>>

\* line 29: the local sync branch replaces the one on the fork
Push ==
    /\ pc = "push"
    /\ \E cmd \in {PushCmd(tf_version)}, rc \in ExitCodes :
          \E b \in {LastWord(cmd)} :
              /\ rc = 0 => GitUsable /\ b \in DOMAIN repo.tips
              /\ calls' = Append(calls, Call("os.system", <<cmd>>, rc))
              /\ origin' = IF rc = 0
                           THEN [origin EXCEPT !.branches =
                                    (b :> repo.tips[b]) @@ @]
                           ELSE origin
    /\ pc' = "pull_request"
    /\ UNCHANGED <<tf_version, tf_branch, git_branch, cwd, output, raised, fs, repo>>

\* lines 30-32: the pull request needs its source branch on the fork
CreatePullRequest ==
    /\ pc = "pull_request"
    /\ \E cmd \in {PullRequestCmd(tf_version, tf_branch)}, rc \in ExitCodes :
          \E src \in {Between("sourceReference=", ",", cmd)},
             dst \in {After("destinationReference=", cmd)} :
              /\ rc = 0 => src \in DOMAIN origin.branches
              /\ calls' = Append(calls, Call("os.system", <<cmd>>, rc))
              /\ origin' = IF rc = 0
                           THEN [origin EXCEPT !.prs = Append(@,
                                    [source |-> src, destination |-> dst,
                                     content |-> origin.branches[src]])]
                           ELSE origin
    /\ pc' = "done"
    /\ UNCHANGED <<tf_version, tf_branch, git_branch, cwd, output, raised, fs, repo>>

Next ==
    \/ DeriveBranches
    \/ Clone
    \/ Chdir
    \/ CheckoutTarget
    \/ CreateSync
    \/ RemoteAdd
    \/ PrintPull
    \/ Pull
    \/ PrintOutput
    \/ Status
    \/ Decide
    \/ Push
    \/ CreatePullRequest

Spec == Init /\ [][Next]_vars

\* every statement returns: the interpreter always takes the next step
FairSpec == Spec /\ WF_vars(Next)

Terminated == pc \in {"done", "aborted"}

----------------------------------------------------------------------------
(* Vocabulary of the properties *)

\* the version as the user wrote it: the default prints as 2.4
VersionText == IF tf_version.type = "float" THEN "2.4" ELSE tf_version.str

TargetName == "r" \o VersionText \o "_aws"

UpstreamName == "r" \o VersionText

SyncName == "r" \o VersionText \o "_aws_git"

\* the text holds "Already up to date" at some position
HasNeedle(text) ==
    \E i \in 0..(Len(text) - 18) :
        SubSeq(text, i + 1, i + 18) = Chars("Already up to date")

Assigned == output # Unassigned

\* the external steps of the trace, the console messages left out
External == SelectSeq(calls, LAMBDA c : c.op # "print")

Is(c, op, argv) == c.op = op /\ c.argv = argv

IsSystem(c, prefix) == c.op = "os.system" /\ StartsWith(prefix, c.argv[1])

IsPush(c) == IsSystem(c, "git push ")

IsPullRequest(c) == IsSystem(c, "aws codecommit create-pull-request ")

IsMerge(c) == c.op = "subprocess.run"

IsUpToDateMessage(c) == Is(c, "print", <<"Branch already up to date.">>)

Pushes == {i \in 1..Len(calls) : IsPush(calls[i])}

PullRequests == {i \in 1..Len(calls) : IsPullRequest(calls[i])}

\* the seven steps before the decision, for the version of this run
PreDecision ==
    << [op |-> "os.system",
        argv |-> <<"git clone codecommit::us-west-2://aws-tensorflow">>],
       [op |-> "os.chdir", argv |-> <<"aws-tensorflow/">>],
       [op |-> "os.system", argv |-> <<"git checkout " \o TargetName>>],
       [op |-> "os.system", argv |-> <<"git checkout -b " \o SyncName>>],
       [op |-> "os.system",
        argv |-> <<"git remote add google https://github.com/tensorflow/tensorflow.git">>],
       [op |-> "subprocess.run",
        argv |-> <<"git", "pull", "--commit", "google", UpstreamName>>],
       [op |-> "os.system", argv |-> <<"git status">>] >>

\* the first n external steps are the first n steps of the sequence
FollowsOrder(n) ==
    \A i \in 1..n : Is(External[i], PreDecision[i].op, PreDecision[i].argv)

SomeFailure == \E i \in 1..Len(calls) : calls[i].rc # 0

----------------------------------------------------------------------------
(* C1 *)

\* C1: when the merge output contains "Already up to date" anywhere, the run
\* invokes neither the push nor the pull-request creation, whatever the
\* earlier commands returned: after the status step it prints the
\* informational message and ends.
C1_UpToDateIsNoOp ==
    (Assigned /\ HasNeedle(output)) =>
        /\ Pushes = {} /\ PullRequests = {}
        /\ pc \in {"print_output", "status", "decide", "done"}
        /\ pc = "done" =>
              /\ IsUpToDateMessage(calls[Len(calls)])
              /\ Is(calls[Len(calls) - 1], "os.system", <<"git status">>)

\* a finished no-op run whose output has text before the substring and in
\* which an earlier command failed
C1_Witness ==
    /\ pc = "done"
    /\ Assigned /\ HasNeedle(output)
    /\ ~StartsWith(Chars("Already"), output)
    /\ SomeFailure

----------------------------------------------------------------------------
(* C2 *)

\* C2: when the merge output does not contain "Already up to date" (the
\* empty text and a text in another letter case included), the run invokes
\* exactly one push of the sync branch to origin with upstream tracking and
\* then exactly one pull-request creation from the sync branch into the
\* target branch; a pull-request creation is always preceded by the push.
C2_SyncPushesThenRequests ==
    /\ \A j \in PullRequests : \E i \in Pushes : i < j
    /\ (pc = "done" /\ ~HasNeedle(output)) =>
          /\ Cardinality(Pushes) = 1
          /\ Cardinality(PullRequests) = 1
          /\ \A i \in Pushes :
                calls[i].argv = <<"git push --set-upstream origin " \o SyncName>>
          /\ \A j \in PullRequests :
                /\ Between("sourceReference=", ",", calls[j].argv[1]) = SyncName
                /\ After("destinationReference=", calls[j].argv[1]) = TargetName

\* a finished run whose merge output differs from the substring only in
\* letter case
C2_Witness ==
    /\ pc = "done"
    /\ output = Chars("already up to date.\n")
    /\ PullRequests # {}

----------------------------------------------------------------------------
(* C3 *)

\* C3 as claimed: every run invokes the seven steps before the decision, in
\* order, each exactly once.
C3_Original ==
    Terminated => (Len(External) >= 7 /\ FollowsOrder(7))

\* C3: the external steps are invoked in the order clone, chdir, checkout of
\* the target branch, creation of the sync branch, remote add, merge, status,
\* each at most once; a run that reaches the decision has invoked each
\* exactly once; a run that invokes fewer was ended by os.chdir or by the
\* decoding of the merge output raising; the decision comes only after the
\* status step and no push or pull-request creation precedes the merge.
C3_OrderedPrefix ==
    /\ FollowsOrder(IF Len(External) < 7 THEN Len(External) ELSE 7)
    /\ pc \in {"decide", "push", "pull_request", "done"} =>
          Len(External) >= 7
    /\ (Terminated /\ Len(External) < 7) =>
          /\ pc = "aborted"
          /\ raised \in {"FileNotFoundError", "UnicodeDecodeError"}
          /\ External[Len(External)].op \in {"os.chdir", "subprocess.run"}
    /\ \A i \in Pushes \cup PullRequests :
          \E m \in 1..(i - 1) : IsMerge(calls[m])

\* a run that took the decision and went on to push
C3_Witness ==
    /\ pc = "pull_request"
    /\ Len(External) = 8
    /\ SomeFailure

----------------------------------------------------------------------------
(* C4 *)

\* C4: all branch names of a run derive from the one version: the branch
\* checked out and the pull-request destination are r<v>_aws, the branch
\* merged from upstream is r<v>, and the branch created, pushed and used as
\* pull-request source is r<v>_aws_git.
C4_NamesFromOneVersion ==
    /\ pc # "derive" => tf_branch = TargetName /\ git_branch = UpstreamName
    /\ \A i \in 1..Len(calls) :
          LET c == calls[i]
          IN  /\ IsSystem(c, "git checkout -b ") => LastWord(c.argv[1]) = SyncName
              /\ (IsSystem(c, "git checkout ") /\ ~IsSystem(c, "git checkout -b "))
                    => LastWord(c.argv[1]) = TargetName
              /\ IsMerge(c) => c.argv[Len(c.argv)] = UpstreamName
              /\ IsPush(c) => LastWord(c.argv[1]) = SyncName
              /\ IsPullRequest(c) =>
                    /\ Between("sourceReference=", ",", c.argv[1]) = SyncName
                    /\ After("destinationReference=", c.argv[1]) = TargetName

\* a run with the default version that created the pull request
C4_Witness ==
    /\ tf_version.type = "float"
    /\ pc = "done"
    /\ PullRequests # {}
    /\ \E i \in 1..Len(calls) : IsSystem(calls[i], "git checkout -b r2.4_aws_git")

----------------------------------------------------------------------------
(* C5 *)

\* C5 as claimed: whatever fails, every later step of the sequence is still
\* invoked.
C5_Original ==
    Terminated =>
        /\ Len(External) >= 7
        /\ (Assigned /\ ~HasNeedle(output)) => Len(External) = 9

\* C5: a non-zero exit status of any external command never stops the run:
\* the run ends early only when os.chdir raises because there is no cloned
\* directory or when the decoding of the merge output raises; in every
\* other case all seven steps before the decision, and the push and the
\* pull-request creation when the decision selects them, are invoked.
C5_OnlyExceptionsStop ==
    /\ pc = "aborted" =>
          \/ /\ raised = "FileNotFoundError"
             /\ Is(calls[Len(calls)], "os.chdir", <<"aws-tensorflow/">>)
             /\ fs = "absent"
          \/ /\ raised = "UnicodeDecodeError"
             /\ IsMerge(calls[Len(calls)])
    /\ pc # "aborted" => raised = "none"
    /\ pc = "done" =>
          /\ Len(External) >= 7
          /\ ~HasNeedle(output) =>
                /\ Len(External) = 9
                /\ IsPush(External[8])
                /\ IsPullRequest(External[9])

\* a finished run in which every external command failed
C5_Witness ==
    /\ pc = "done"
    /\ Len(External) = 9
    /\ \A i \in 1..Len(calls) :
          calls[i].op \in {"os.system", "subprocess.run"} => calls[i].rc = 1

----------------------------------------------------------------------------
(* C6 *)

\* C6 as claimed: a failed merge with empty or partial text takes the
\* up-to-date path.
C6_Original ==
    (/\ pc = "done"
     /\ \E m \in 1..Len(calls) : IsMerge(calls[m]) /\ calls[m].rc # 0
     /\ ~HasNeedle(output)) =>
        /\ IsUpToDateMessage(calls[Len(calls)])
        /\ Pushes = {} /\ PullRequests = {}

\* C6: a failed merge whose captured text is empty or partial (without the
\* substring) takes the sync path: no up-to-date message is printed and the
\* push and the pull-request creation are invoked.
C6_FailedMergeSyncs ==
    (/\ Assigned
     /\ \E m \in 1..Len(calls) : IsMerge(calls[m]) /\ calls[m].rc # 0
     /\ ~HasNeedle(output)) =>
        /\ \A i \in 1..Len(calls) : ~IsUpToDateMessage(calls[i])
        /\ pc \in {"print_output", "status", "decide", "push",
                   "pull_request", "done"}
        /\ pc = "done" => Cardinality(Pushes) = 1 /\ Cardinality(PullRequests) = 1

\* a finished run whose merge failed and printed nothing on stdout
C6_Witness ==
    /\ pc = "done"
    /\ output = <<>>
    /\ \E m \in 1..Len(calls) : IsMerge(calls[m]) /\ calls[m].rc # 0

----------------------------------------------------------------------------
(* C7 *)

\* C7: every pull-request creation carries the version of the run in its
\* title and in its description, names the derived sync branch as source
\* and the derived target branch as destination, and presents the client
\* request token "request_token", whatever the version and the merge output.
C7_PullRequestArguments ==
    \A j \in PullRequests :
        LET cmd == calls[j].argv[1]
            title == Between("--title \"", "\"", cmd)
            description == Between("--description \"", "\"", cmd)
        IN  /\ title = "TF" \o VersionText \o " git sync"
            /\ description = "Sync tf " \o VersionText \o " with vanilla tf branch"
            /\ Contains(VersionText, title) /\ Contains(VersionText, description)
            /\ Between("--client-request-token ", " ", cmd) = "request_token"
            /\ Between("repositoryName=", ",", cmd) = "aws-tensorflow"
            /\ Between("sourceReference=", ",", cmd) = SyncName
            /\ After("destinationReference=", cmd) = TargetName

\* the pull request of version 2.6 after a fast-forward merge
C7_Witness ==
    /\ tf_version = StrVersion("2.6")
    /\ output = Chars("Updating abc123..def456\n Fast-forward\n")
    /\ PullRequests # {}
    /\ Len(origin.prs) = 1

----------------------------------------------------------------------------
(* C8 *)

\* the commands main() can invoke
Known(c) ==
    \/ IsSystem(c, "git clone ")
    \/ IsSystem(c, "git checkout ")
    \/ IsSystem(c, "git remote add ")
    \/ IsSystem(c, "git status")
    \/ IsSystem(c, "git push --set-upstream ")
    \/ IsPullRequest(c)
    \/ c.op = "os.chdir"
    \/ IsMerge(c)

\* no external command is invoked twice and none undoes an earlier one
NoRetryNoRollback ==
    /\ \A i, j \in 1..Len(External) :
          i < j => ~Is(External[j], External[i].op, External[i].argv)
    /\ \A i \in 1..Len(External) :
          /\ Known(External[i])
          /\ ~IsSystem(External[i], "git branch ")
          /\ ~IsSystem(External[i], "git remote remove ")
          /\ ~IsSystem(External[i], "git remote rm ")
          /\ ~IsSystem(External[i], "git push --delete ")
          /\ ~IsSystem(External[i], "rm ")
    /\ Len(External) <= 9

\* C8: whatever fails, each external command is invoked at most once, no
\* compensating command (branch deletion, remote removal, removal of the
\* cloned directory) is invoked, and the run terminates as long as every
\* external command returns.
C8_NoRetryAndTerminates == []NoRetryNoRollback /\ <>Terminated

\* a finished run in which the creation of the sync branch and the push
\* failed and nothing was retried or undone
C8_Witness ==
    /\ pc = "done"
    /\ Len(External) = 9
    /\ External[4].rc = 1
    /\ External[8].rc = 1

----------------------------------------------------------------------------
(* C9 *)

\* C9: every version-control command after the clone, and the pull-request
\* creation, is invoked with the cloned directory as working directory; when
\* os.chdir fails for want of that directory the run ends there and none of
\* them is invoked.
C9_OnlyInClonedDirectory ==
    /\ \A i \in 1..Len(calls) :
          LET c == calls[i]
          IN  (\/ IsSystem(c, "git ") /\ ~IsSystem(c, "git clone ")
               \/ IsMerge(c)
               \/ IsPullRequest(c)) => c.cwd = "./aws-tensorflow/"
    /\ \A i \in 1..Len(calls) :
          (calls[i].op = "os.chdir" /\ calls[i].rc # 0) =>
              /\ pc = "aborted"
              /\ i = Len(calls)
              /\ cwd = "."

\* the clone failed, no directory exists and os.chdir raised
C9_Witness ==
    /\ pc = "aborted"
    /\ raised = "FileNotFoundError"
    /\ Len(calls) = 2
    /\ calls[1].rc = 1

----------------------------------------------------------------------------
(* C10 *)

\* C10: every pull request created holds a sync branch that was started
\* from the target branch and has the upstream branch merged into it, also
\* when the checkout of the target branch or the creation of the sync
\* branch failed.
C10_PullRequestIsTargetPlusUpstream ==
    \A k \in 1..Len(origin.prs) :
        origin.prs[k].content = [base |-> "target", merged |-> TRUE]

====
